---- MODULE Spec2Model ----
(***************************************************************************)
(* Model of src/mock_api.py: the fake HTTP response generator              *)
(* (simulate_api_get, simulate_api_post, ResponseData).                    *)
(*                                                                         *)
(* Python values are tagged tuples:                                        *)
(*   <<"NoneType">>            None                                        *)
(*   <<"int", n>>              an int                                      *)
(*   <<"float", w, d>>         the float w + d/10  (w >= 0, d a digit)     *)
(*   <<"str", cs>>             a str, cs its characters                    *)
(*   <<"list", xs>>            a list                                      *)
(*   <<"tuple", xs>>           a tuple                                     *)
(*   <<"set", xs>>             a set                                       *)
(*   <<"dict", es>>            a dict, es its <<key, value>> entries in    *)
(*                             insertion order (keys are str)              *)
(*   <<"ref", slot>>           inside a payload only: the very object the  *)
(*                             caller passed as argument `slot`            *)
(* Text (a url's characters, raw_text) is a sequence of one-character      *)
(* strings.                                                                *)
(***************************************************************************)
EXTENDS Integers, Sequences, FiniteSets, TLC

VARIABLES pc, args, objs, slept, exc, msg, resp

vars == <<pc, args, objs, slept, exc, msg, resp>>

----------------------------------------------------------------------------
(* Python values *)

PyNone == <<"NoneType">>

PyInt(n) == <<"int", n>>

PyFloat(w, d) == <<"float", w, d>>

PyStr(cs) == <<"str", cs>>

PyList(xs) == <<"list", xs>>

PyTuple(xs) == <<"tuple", xs>>

PySet(xs) == <<"set", xs>>

PyDict(es) == <<"dict", es>>

PyRef(slot) == <<"ref", slot>>

EmptyDict == PyDict(<<>>)

TypeOf(v) == v[1]

\* isinstance(v, str), isinstance(v, dict), v is None
IsStr(v) == TypeOf(v) = "str"

IsDict(v) == TypeOf(v) = "dict"

IsNone(v) == TypeOf(v) = "NoneType"

\* bool(v) for the values `x or {}` is applied to: None and empty containers are falsy
Truthy(v) ==
    CASE TypeOf(v) = "NoneType" -> FALSE
      [] TypeOf(v) \in {"dict", "list", "tuple", "set"} -> Len(v[2]) > 0
      [] TypeOf(v) = "str" -> Len(v[2]) > 0
      [] TypeOf(v) = "int" -> v[2] # 0
      [] OTHER -> TRUE

\* d[key] for a dict d that has the key
DictGet(d, key) ==
    LET i == CHOOSE j \in 1..Len(d[2]) : d[2][j][1] = key
    IN  d[2][i][2]

HasKey(d, key) == \E j \in 1..Len(d[2]) : d[2][j][1] = key

\* d[key] = val: replaces the value in place, or appends a new entry
DictSet(d, key, val) ==
    IF HasKey(d, key)
    THEN PyDict([j \in 1..Len(d[2]) |->
                    IF d[2][j][1] = key THEN <<key, val>> ELSE d[2][j]])
    ELSE PyDict(Append(d[2], <<key, val>>))

----------------------------------------------------------------------------
(* Text *)

Whitespace == {" ", "\t", "\n"}

RECURSIVE LStrip(_)
LStrip(cs) ==
    IF cs # <<>> /\ Head(cs) \in Whitespace THEN LStrip(Tail(cs)) ELSE cs

RECURSIVE RStrip(_)
RStrip(cs) ==
    IF cs # <<>> /\ cs[Len(cs)] \in Whitespace
    THEN RStrip(SubSeq(cs, 1, Len(cs) - 1))
    ELSE cs

\* str.strip()
Strip(cs) == RStrip(LStrip(cs))

Digits == <<"0", "1", "2", "3", "4", "5", "6", "7", "8", "9">>

DigitChar(d) == Digits[d + 1]

DigitValue(c) == (CHOOSE i \in 1..10 : Digits[i] = c) - 1

IsDigit(c) == \E i \in 1..10 : Digits[i] = c

RECURSIVE NatToDec(_)
NatToDec(n) ==
    IF n < 10 THEN <<DigitChar(n)>>
    ELSE NatToDec(n \div 10) \o <<DigitChar(n % 10)>>

\* int.__repr__, as json.dumps writes an int
IntToDec(n) == IF n < 0 THEN <<"-">> \o NatToDec(-n) ELSE NatToDec(n)

RECURSIVE DecToNat(_, _)
DecToNat(cs, acc) ==
    IF cs = <<>> THEN acc
    ELSE DecToNat(Tail(cs), 10 * acc + DigitValue(Head(cs)))

----------------------------------------------------------------------------
(* json.dumps with the default separators ", " and ": " *)

\* json.dumps raises TypeError for a value that is not one of these
RECURSIVE JsonSerializable(_)
JsonSerializable(v) ==
    CASE TypeOf(v) \in {"NoneType", "int", "float", "str"} -> TRUE
      [] TypeOf(v) \in {"list", "tuple"} ->
            \A i \in 1..Len(v[2]) : JsonSerializable(v[2][i])
      [] TypeOf(v) = "dict" ->
            \A i \in 1..Len(v[2]) :
                IsStr(v[2][i][1]) /\ JsonSerializable(v[2][i][2])
      [] OTHER -> FALSE

Quoted(cs) == <<"\"">> \o cs \o <<"\"">>

RECURSIVE JsonDumps(_)
RECURSIVE DumpsItems(_, _)
RECURSIVE DumpsMembers(_, _)

\* the items of a list or tuple from index i on, joined by ", "
DumpsItems(xs, i) ==
    IF i > Len(xs) THEN <<>>
    ELSE (IF i > 1 THEN <<",", " ">> ELSE <<>>)
         \o JsonDumps(xs[i]) \o DumpsItems(xs, i + 1)

\* the entries of a dict from index i on: "key": value, joined by ", "
DumpsMembers(es, i) ==
    IF i > Len(es) THEN <<>>
    ELSE (IF i > 1 THEN <<",", " ">> ELSE <<>>)
         \o Quoted(es[i][1][2]) \o <<":", " ">> \o JsonDumps(es[i][2])
         \o DumpsMembers(es, i + 1)

\* a list and a tuple are both written as a JSON array; the characters of
\* the modelled strings need no escape
JsonDumps(v) ==
    CASE TypeOf(v) = "NoneType" -> <<"n", "u", "l", "l">>
      [] TypeOf(v) = "int" -> IntToDec(v[2])
      [] TypeOf(v) = "float" -> NatToDec(v[2]) \o <<".">> \o <<DigitChar(v[3])>>
      [] TypeOf(v) = "str" -> Quoted(v[2])
      [] TypeOf(v) \in {"list", "tuple"} ->
            <<"[">> \o DumpsItems(v[2], 1) \o <<"]">>
      [] TypeOf(v) = "dict" ->
            <<"{">> \o DumpsMembers(v[2], 1) \o <<"}">>

----------------------------------------------------------------------------
(* json.loads: a recursive-descent parse; each Parse operator returns      *)
(* <<value, index after it>>                                               *)

RECURSIVE SkipWs(_, _)
SkipWs(s, i) ==
    IF i <= Len(s) /\ s[i] \in Whitespace THEN SkipWs(s, i + 1) ELSE i

RECURSIVE ParseString(_, _, _)
ParseString(s, i, acc) ==
    IF s[i] = "\"" THEN <<PyStr(acc), i + 1>>
    ELSE ParseString(s, i + 1, Append(acc, s[i]))

RECURSIVE NumberEnd(_, _)
NumberEnd(s, i) ==
    IF i <= Len(s) /\ (IsDigit(s[i]) \/ s[i] \in {"-", "."})
    THEN NumberEnd(s, i + 1)
    ELSE i

\* digits with a "." parse to a float, without to an int
ParseNumber(s, i) ==
    LET e == NumberEnd(s, i)
        neg == s[i] = "-"
        b == IF neg THEN i + 1 ELSE i
        dots == {k \in b..(e - 1) : s[k] = "."}
    IN  IF dots = {}
        THEN LET n == DecToNat(SubSeq(s, b, e - 1), 0)
             IN  <<PyInt(IF neg THEN -n ELSE n), e>>
        ELSE LET k == CHOOSE k \in dots : TRUE
             IN  <<PyFloat(DecToNat(SubSeq(s, b, k - 1), 0), DigitValue(s[k + 1])), e>>

RECURSIVE ParseValue(_, _)
RECURSIVE ParseArray(_, _, _)
RECURSIVE ParseObject(_, _, _)

\* a JSON array parses to a list
ParseArray(s, i, acc) ==
    LET j == SkipWs(s, i)
    IN  IF s[j] = "]" THEN <<PyList(acc), j + 1>>
        ELSE IF s[j] = "," THEN ParseArray(s, j + 1, acc)
        ELSE LET r == ParseValue(s, j)
             IN  ParseArray(s, r[2], Append(acc, r[1]))

\* a JSON object parses to a dict with str keys
ParseObject(s, i, acc) ==
    LET j == SkipWs(s, i)
    IN  IF s[j] = "}" THEN <<PyDict(acc), j + 1>>
        ELSE IF s[j] = "," THEN ParseObject(s, j + 1, acc)
        ELSE LET k == ParseString(s, j + 1, <<>>)
                 c == SkipWs(s, k[2])
                 r == ParseValue(s, c + 1)
             IN  ParseObject(s, r[2], Append(acc, <<k[1], r[1]>>))

ParseValue(s, i) ==
    LET j == SkipWs(s, i)
    IN  CASE s[j] = "{" -> ParseObject(s, j + 1, <<>>)
          [] s[j] = "[" -> ParseArray(s, j + 1, <<>>)
          [] s[j] = "\"" -> ParseString(s, j + 1, <<>>)
          [] s[j] = "n" -> <<PyNone, j + 4>>
          [] OTHER -> ParseNumber(s, j)

JsonLoads(s) == ParseValue(s, 1)[1]

----------------------------------------------------------------------------
(* Program constants *)

\* random.randint(100000, 999999)
RequestIdMin == 100000

RequestIdMax == 999999

\* random.randint(200, 299)
StatusMin == 200

StatusMax == 299

\* random.uniform(0.05, 0.15) seconds, in milliseconds
SleepMinMs == 50

SleepMaxMs == 150

\* error_status: int = 500
DefaultErrorStatus == 500

----------------------------------------------------------------------------
(* Bounds and input domains *)

\* the longest list or tuple a caller puts into a mapping
MaxElems == 1

Threads == {"t1", "t2"}

MainThread == "t1"

Ints(n) == [i \in 1..n |-> PyInt(i)]

K(text) == PyStr(text)

\* url: an int (not a str), "", " " (blank), "/u"
Urls == {PyInt(42), PyStr(<<>>), PyStr(<<" ">>), PyStr(<<"/", "u">>)}

\* what a caller puts under key "k" of params / data
EntryVals ==
    {PyInt(1), PySet(<<PyInt(1)>>)}
    \cup {PyList(Ints(n)) : n \in 0..MaxElems}
    \cup {PyTuple(Ints(n)) : n \in 0..MaxElems}

\* params / data: None, a list (not a dict), {}, {"k": v}
ParamVals ==
    {PyNone, PyList(<<PyInt(1)>>), EmptyDict}
    \cup {PyDict(<< <<K(<<"k">>), v>> >>) : v \in EntryVals}

\* headers: None, a str (not a dict), {}, {"h": "v"}
HeaderVals ==
    {PyNone, PyStr(<<"x">>), EmptyDict,
     PyDict(<< <<K(<<"h">>), PyStr(<<"v">>)>> >>)}

ErrorStatuses == {-1, StatusMin, DefaultErrorStatus}

\* the values random.randint(lo, hi) is sampled at: both ends and the middle
RandInt(lo, hi) == {lo, (lo + hi) \div 2, hi}

\* the delays random.uniform is sampled at, in milliseconds
Delays == {SleepMinMs, SleepMaxMs}

\* time.time(): a float
Now == {PyFloat(1793600017, 7)}

\* the smaller domains of the two-caller specification
UrlsMT == {PyStr(<<>>), PyStr(<<"/", "u">>)}

ParamValsMT == {PyNone, PyList(<<PyInt(1)>>), PyDict(<< <<K(<<"k">>), PyInt(1)>> >>)}

HeaderValsMT == {PyNone, PyDict(<< <<K(<<"h">>), PyStr(<<"v">>)>> >>)}

ErrorStatusesMT == {StatusMin, DefaultErrorStatus}

----------------------------------------------------------------------------
(* ResponseData *)

\* @dataclass(frozen=True) class ResponseData
ResponseData(status_code, json_data, headers, raw_text) ==
    [status_code |-> status_code, json_data |-> json_data,
     headers |-> headers, raw_text |-> raw_text]

\* headers={"Content-Type": "application/json"}
ContentTypeJson ==
    PyDict(<< <<K(<<"C", "o", "n", "t", "e", "n", "t", "-", "T", "y", "p", "e">>),
               PyStr(<<"a", "p", "p", "l", "i", "c", "a", "t", "i", "o", "n", "/", "j", "s", "o", "n">>)>> >>)

\* the value of a payload entry: a <<"ref", slot>> entry is the caller's own
\* object o[slot]
Deref(v, o) == IF TypeOf(v) = "ref" THEN o[v[2]] ELSE v

\* a payload dict as Python sees it, every aliased entry read through
Resolve(d, o) ==
    PyDict([i \in 1..Len(d[2]) |-> <<d[2][i][1], Deref(d[2][i][2], o)>>])

\* `x or {}`: x itself (the same object) when truthy, else a new empty dict
OrEmpty(x, slot) == IF Truthy(x) THEN PyRef(slot) ELSE EmptyDict

\* f"req-{n}"
RequestId(n) == PyStr(<<"r", "e", "q", "-">> \o IntToDec(n))

\* the result of a call step: a returned value or a raised exception
Returns(r) == [raised |-> "none", value |-> r]

Raises(e) == [raised |-> e, value |-> ResponseData(0, PyNone, EmptyDict, <<>>)]

\* mutant: the body and the headers are echoed under each other's key
FakePostPayloadSwapped(url, data, headers, rid, now) ==
    PyDict(<< <<K(<<"r", "e", "q", "u", "e", "s", "t", "_", "i", "d">>), RequestId(rid)>>,
              <<K(<<"u", "r", "l">>), url>>,
              <<K(<<"b", "o", "d", "y">>), OrEmpty(headers, "headers")>>,
              <<K(<<"h", "e", "a", "d", "e", "r", "s">>), OrEmpty(data, "params")>>,
              <<K(<<"t", "i", "m", "e">>), now>> >>)

\* fake_payload of _generate_fake_response
FakePayload(url, params, headers, rid, now) ==
    PyDict(<< <<K(<<"r", "e", "q", "u", "e", "s", "t", "_", "i", "d">>), RequestId(rid)>>,
              <<K(<<"u", "r", "l">>), url>>,
              <<K(<<"p", "a", "r", "a", "m", "s">>), OrEmpty(params, "params")>>,
              <<K(<<"h", "e", "a", "d", "e", "r", "s">>), OrEmpty(headers, "headers")>>,
              <<K(<<"t", "i", "m", "e">>), now>> >>)

\* fake_payload of _generate_fake_post_response
FakePostPayload(url, data, headers, rid, now) ==
    PyDict(<< <<K(<<"r", "e", "q", "u", "e", "s", "t", "_", "i", "d">>), RequestId(rid)>>,
              <<K(<<"u", "r", "l">>), url>>,
              <<K(<<"b", "o", "d", "y">>), OrEmpty(data, "params")>>,
              <<K(<<"h", "e", "a", "d", "e", "r", "s">>), OrEmpty(headers, "headers")>>,
              <<K(<<"t", "i", "m", "e">>), now>> >>)

\* the rest of both generators: json.dumps(fake_payload) raises TypeError on
\* a value it cannot serialize, else the ResponseData is built
FinishFake(fake_payload, o, status_code) ==
    IF JsonSerializable(Resolve(fake_payload, o))
    THEN Returns(ResponseData(status_code, fake_payload, ContentTypeJson,
                              JsonDumps(Resolve(fake_payload, o))))
    ELSE Raises("TypeError")

_generate_fake_response(url, params, headers, rid, status_code, now) ==
    FinishFake(FakePayload(url, params, headers, rid, now),
               [params |-> params, headers |-> headers], status_code)

_generate_fake_post_response(url, data, headers, rid, status_code, now) ==
    FinishFake(FakePostPayload(url, data, headers, rid, now),
               [params |-> data, headers |-> headers], status_code)

\* error_payload of simulate_api_get / simulate_api_post
ErrorPayload(error_status) ==
    PyDict(<< <<K(<<"e", "r", "r", "o", "r">>), PyStr(<<"S", "i", "m", "u", "l", "a", "t", "e", "d", " ", "e", "r", "r", "o", "r">>)>>,
              <<K(<<"s", "t", "a", "t", "u", "s">>), PyInt(error_status)>>,
              <<K(<<"m", "e", "s", "s", "a", "g", "e">>),
                PyStr(<<"T", "h", "i", "s", " ", "i", "s", " ", "a", " ", "f", "a", "k", "e", " ", "e", "r", "r", "o", "r", " ", "r", "e", "s", "p", "o", "n", "s", "e", ".">>)>> >>)

\* mutant: the error path answers with the default status, not error_status
ErrorResponseDefaultStatus(error_status) ==
    ResponseData(DefaultErrorStatus, ErrorPayload(DefaultErrorStatus),
                 ContentTypeJson, JsonDumps(ErrorPayload(DefaultErrorStatus)))

\* mutant: the error path leaves headers to the dataclass default, {}
ErrorResponseNoHeaders(error_status) ==
    ResponseData(error_status, ErrorPayload(error_status), EmptyDict,
                 JsonDumps(ErrorPayload(error_status)))

\* mutant: the error status is kept in a module-level variable that every
\* call in flight writes, so a call answers with the largest one in flight
ErrorResponseShared(error_status) ==
    LET inflight == {error_status} \cup
                    {args[u].error_status :
                        u \in {u \in DOMAIN pc : pc[u] = "awake" /\ args[u].simulate_error}}
        last == CHOOSE x \in inflight : \A y \in inflight : y <= x
    IN  ResponseData(last, ErrorPayload(last), ContentTypeJson,
                     JsonDumps(ErrorPayload(last)))

\* the ResponseData returned when simulate_error is set
ErrorResponse(error_status) ==
    ResponseData(error_status, ErrorPayload(error_status), ContentTypeJson,
                 JsonDumps(ErrorPayload(error_status)))

----------------------------------------------------------------------------
(* Input validation *)

\* mutant: only the type of url is checked, an empty url passes
UrlRejectedTypeOnly(url) == ~IsStr(url)

\* not isinstance(url, str) or not url.strip()
UrlRejected(url) == ~IsStr(url) \/ Strip(url[2]) = <<>>

\* mutant: the isinstance test is inverted
MappingRejectedInverted(m) == ~IsNone(m) /\ IsDict(m)

\* m is not None and not isinstance(m, dict)
MappingRejected(m) == ~IsNone(m) /\ ~IsDict(m)

\* the three checks of simulate_api_get, in order; "none" when all pass
ValidateGet(url, params, headers) ==
    IF UrlRejected(url) THEN "ValueError"
    ELSE IF MappingRejected(params) THEN "TypeError"
    ELSE IF MappingRejected(headers) THEN "TypeError"
    ELSE "none"

\* the three checks of simulate_api_post, in order; "none" when all pass
ValidatePost(url, data, headers) ==
    IF UrlRejected(url) THEN "ValueError"
    ELSE IF MappingRejected(data) THEN "TypeError"
    ELSE IF MappingRejected(headers) THEN "TypeError"
    ELSE "none"

\* the messages of the exceptions the two functions raise
UrlMessage == "URL must be a non-empty string."

ParamsMessage == "params must be a dictionary or None."

DataMessage == "data must be a dictionary or None."

HeadersMessage == "headers must be a dictionary or None."

\* json.dumps on a value it cannot serialize
NotSerializableMessage == "Object of type set is not JSON serializable"

\* dataclasses.FrozenInstanceError on an assignment to a field
FrozenMessage == "cannot assign to field 'status_code'"

\* the message of the first check of simulate_api_get that fails, "" when
\* all pass
MessageGet(url, params, headers) ==
    IF UrlRejected(url) THEN UrlMessage
    ELSE IF MappingRejected(params) THEN ParamsMessage
    ELSE IF MappingRejected(headers) THEN HeadersMessage
    ELSE ""

\* mutant: simulate_api_post checks headers before data
MessagePostHeadersFirst(url, data, headers) ==
    IF UrlRejected(url) THEN UrlMessage
    ELSE IF MappingRejected(headers) THEN HeadersMessage
    ELSE IF MappingRejected(data) THEN DataMessage
    ELSE ""

\* the message of the first check of simulate_api_post that fails, "" when
\* all pass
MessagePost(url, data, headers) ==
    IF UrlRejected(url) THEN UrlMessage
    ELSE IF MappingRejected(data) THEN DataMessage
    ELSE IF MappingRejected(headers) THEN HeadersMessage
    ELSE ""

----------------------------------------------------------------------------
(* State                                                                   *)
(*   pc[t]     where caller t is: "idle", inside a call ("sleeping" before *)
(*             and "awake" after time.sleep), or back in its own code with *)
(*             the call "returned" or "raised"; "used" once it has touched *)
(*             what it got back                                            *)
(*   args[t]   the arguments of t's call, as passed (params is data for a  *)
(*             post)                                                       *)
(*   objs[t]   the objects t passed as params/data and headers, as they    *)
(*             are now                                                     *)
(*   slept[t]  the milliseconds t's call has slept, 0 before time.sleep    *)
(*   exc[t]    the exception t last got, "none" without                    *)
(*   msg[t]    the message of that exception, "" without                    *)
(*   resp[t]   the ResponseData t's call returned                          *)

NoArgs ==
    [fn |-> "none", url |-> PyNone, params |-> PyNone, headers |-> PyNone,
     simulate_error |-> FALSE, error_status |-> 0]

NoObjs == [params |-> PyNone, headers |-> PyNone]

NoResponse == ResponseData(0, PyNone, EmptyDict, <<>>)

Init ==
    /\ pc = [t \in Threads |-> "idle"]
    /\ args = [t \in Threads |-> NoArgs]
    /\ objs = [t \in Threads |-> NoObjs]
    /\ slept = [t \in Threads |-> 0]
    /\ exc = [t \in Threads |-> "none"]
    /\ msg = [t \in Threads |-> ""]
    /\ resp = [t \in Threads |-> NoResponse]

\* a call begins: the arguments are bound and validated; err is the
\* validation's verdict
Enter(t, fn, url, params, headers, simulate_error, error_status, err) ==
    /\ pc[t] = "idle"
    /\ args' = [args EXCEPT ![t] =
                    [fn |-> fn, url |-> url, params |-> params,
                     headers |-> headers, simulate_error |-> simulate_error,
                     error_status |-> error_status]]
    /\ objs' = [objs EXCEPT ![t] = [params |-> params, headers |-> headers]]
    /\ exc' = [exc EXCEPT ![t] = err]
    /\ pc' = [pc EXCEPT ![t] = IF err = "none" THEN "sleeping" ELSE "raised"]
    /\ UNCHANGED <<slept, resp>>

\* simulate_api_get up to time.sleep
EnterGet(t, U, P, H, E) ==
    \E url \in U, params \in P, headers \in H,
       simulate_error \in BOOLEAN, error_status \in E :
        /\ Enter(t, "get", url, params, headers, simulate_error, error_status,
                 ValidateGet(url, params, headers))
        /\ msg' = [msg EXCEPT ![t] = MessageGet(url, params, headers)]

\* simulate_api_post up to time.sleep
EnterPost(t, U, P, H, E) ==
    \E url \in U, data \in P, headers \in H,
       simulate_error \in BOOLEAN, error_status \in E :
        /\ Enter(t, "post", url, data, headers, simulate_error, error_status,
                 ValidatePost(url, data, headers))
        /\ msg' = [msg EXCEPT ![t] = MessagePost(url, data, headers)]

\* time.sleep(random.uniform(0.05, 0.15))
Sleep(t) ==
    /\ pc[t] = "sleeping"
    /\ \E d \in Delays : slept' = [slept EXCEPT ![t] = d]
    /\ pc' = [pc EXCEPT ![t] = "awake"]
    /\ UNCHANGED <<args, objs, exc, msg, resp>>

\* the call ends with result r: a return or a raise
Leave(t, r) ==
    /\ pc' = [pc EXCEPT ![t] = IF r.raised = "none" THEN "returned" ELSE "raised"]
    /\ exc' = [exc EXCEPT ![t] = r.raised]
    /\ resp' = [resp EXCEPT ![t] = r.value]
    /\ msg' = [msg EXCEPT ![t] = IF r.raised = "none" THEN "" ELSE NotSerializableMessage]
    /\ UNCHANGED <<args, objs, slept>>

\* simulate_api_get after time.sleep
FinishGet(t, R, S) ==
    /\ pc[t] = "awake"
    /\ args[t].fn = "get"
    /\ IF args[t].simulate_error
       THEN Leave(t, Returns(ErrorResponse(args[t].error_status)))
       ELSE \E rid \in R, status_code \in S, now \in Now :
                Leave(t, _generate_fake_response(args[t].url, objs[t].params,
                             objs[t].headers, rid, status_code, now))

\* simulate_api_post after time.sleep
FinishPost(t, R, S) ==
    /\ pc[t] = "awake"
    /\ args[t].fn = "post"
    /\ IF args[t].simulate_error
       THEN Leave(t, Returns(ErrorResponse(args[t].error_status)))
       ELSE \E rid \in R, status_code \in S, now \in Now :
                Leave(t, _generate_fake_post_response(args[t].url,
                             objs[t].params, objs[t].headers, rid,
                             status_code, now))

----------------------------------------------------------------------------
(* What the caller can do with what it owns once the call is over *)

MutationKey == PyStr(<<"z">>)

MutationVal == PyStr(<<"z">>)

\* the caller writes into a dict it passed as params/data or headers
MutateArg(t, slot) ==
    /\ pc[t] \in {"returned", "used"}
    /\ IsDict(objs[t][slot])
    /\ objs' = [objs EXCEPT ![t][slot] = DictSet(@, MutationKey, MutationVal)]
    /\ pc' = [pc EXCEPT ![t] = "used"]
    /\ UNCHANGED <<args, slept, exc, msg, resp>>

\* the caller writes into the dict behind resp.json_data
MutatePayload(t) ==
    /\ pc[t] \in {"returned", "used"}
    /\ resp' = [resp EXCEPT ![t].json_data = DictSet(@, MutationKey, MutationVal)]
    /\ pc' = [pc EXCEPT ![t] = "used"]
    /\ UNCHANGED <<args, objs, slept, exc, msg>>

\* the caller assigns to a field of the frozen dataclass
AssignField(t) ==
    /\ pc[t] \in {"returned", "used"}
    /\ exc' = [exc EXCEPT ![t] = "FrozenInstanceError"]
    /\ pc' = [pc EXCEPT ![t] = "used"]
    /\ msg' = [msg EXCEPT ![t] = FrozenMessage]
    /\ UNCHANGED <<args, objs, slept, resp>>

\* the caller drops the outcome and is ready for its next call
Discard(t) ==
    /\ pc[t] \in {"returned", "used", "raised"}
    /\ pc' = [pc EXCEPT ![t] = "idle"]
    /\ args' = [args EXCEPT ![t] = NoArgs]
    /\ objs' = [objs EXCEPT ![t] = NoObjs]
    /\ slept' = [slept EXCEPT ![t] = 0]
    /\ exc' = [exc EXCEPT ![t] = "none"]
    /\ msg' = [msg EXCEPT ![t] = ""]
    /\ resp' = [resp EXCEPT ![t] = NoResponse]

----------------------------------------------------------------------------
(* Specifications *)

\* one caller, the full input domains
Next ==
    \/ EnterGet(MainThread, Urls, ParamVals, HeaderVals, ErrorStatuses)
    \/ EnterPost(MainThread, Urls, ParamVals, HeaderVals, ErrorStatuses)
    \/ Sleep(MainThread)
    \/ FinishGet(MainThread, RandInt(RequestIdMin, RequestIdMax),
                 RandInt(StatusMin, StatusMax))
    \/ FinishPost(MainThread, RandInt(RequestIdMin, RequestIdMax),
                  RandInt(StatusMin, StatusMax))
    \/ \E slot \in {"params", "headers"} : MutateArg(MainThread, slot)
    \/ MutatePayload(MainThread)
    \/ AssignField(MainThread)
    \/ Discard(MainThread)

Spec == Init /\ [][Next]_vars

\* two callers in two threads, the smaller input domains
NextMT ==
    \E t \in Threads :
        \/ EnterGet(t, UrlsMT, ParamValsMT, HeaderValsMT, ErrorStatusesMT)
        \/ EnterPost(t, UrlsMT, ParamValsMT, HeaderValsMT, ErrorStatusesMT)
        \/ Sleep(t)
        \/ FinishGet(t, {RequestIdMin}, {StatusMin, StatusMax})
        \/ FinishPost(t, {RequestIdMin}, {StatusMin, StatusMax})
        \/ Discard(t)

SpecMT == Init /\ [][NextMT]_vars

----------------------------------------------------------------------------
(* Observations the properties are stated with *)

\* t's call is over: it returned or it raised, and t has touched nothing yet
Over(t) == pc[t] \in {"returned", "raised"}

\* t holds a ResponseData
Holds(t) == pc[t] \in {"returned", "used"}

\* resp.json_data as the caller reads it
Payload(t) == Resolve(resp[t].json_data, objs[t])

\* a str with at least one character
NonEmptyStr(v) == TypeOf(v) = "str" /\ Len(v[2]) > 0

\* a str with at least one character that is not white space
NonBlankStr(v) ==
    TypeOf(v) = "str" /\ \E i \in 1..Len(v[2]) : v[2][i] \notin Whitespace

\* absent, or a mapping
AbsentOrMapping(v) == TypeOf(v) \in {"NoneType", "dict"}

\* the argument or, when it was omitted, the empty mapping
Supplied(v) == IF TypeOf(v) = "NoneType" THEN PyDict(<<>>) ELSE v

KeyUrl == PyStr(<<"u", "r", "l">>)

KeyHeaders == PyStr(<<"h", "e", "a", "d", "e", "r", "s">>)

KeyError == PyStr(<<"e", "r", "r", "o", "r">>)

KeyStatus == PyStr(<<"s", "t", "a", "t", "u", "s">>)

\* the payload key that echoes params (get) or the body (post)
KeyMapping(fn) ==
    IF fn = "get" THEN PyStr(<<"p", "a", "r", "a", "m", "s">>)
    ELSE PyStr(<<"b", "o", "d", "y">>)

Entry(d, key, val) == HasKey(d, key) /\ DictGet(d, key) = val

----------------------------------------------------------------------------
(* C1 *)

\* C1: every call with a non-empty string url, params/body and headers each
\* absent or a mapping, and simulate_error false returns a ResponseData whose
\* status_code is in 200..299, whatever error_status is.
C1_SuccessReturns2xx ==
    \A t \in Threads :
        (/\ Over(t)
         /\ NonEmptyStr(args[t].url)
         /\ AbsentOrMapping(args[t].params)
         /\ AbsentOrMapping(args[t].headers)
         /\ ~args[t].simulate_error)
        => /\ pc[t] = "returned"
           /\ resp[t].status_code \in 200..299

----------------------------------------------------------------------------
(* C2 *)

\* C2: with valid inputs and simulate_error true the call returns normally a
\* ResponseData whose status_code is the supplied error_status, for every
\* integer error_status, and whose payload carries an error indicator and the
\* same error_status.
C2_ErrorStatusExact ==
    \A t \in Threads :
        (/\ Over(t)
         /\ NonBlankStr(args[t].url)
         /\ AbsentOrMapping(args[t].params)
         /\ AbsentOrMapping(args[t].headers)
         /\ args[t].simulate_error)
        => /\ pc[t] = "returned"
           /\ exc[t] = "none"
           /\ resp[t].status_code = args[t].error_status
           /\ HasKey(Payload(t), KeyError)
           /\ Entry(Payload(t), KeyStatus, PyInt(args[t].error_status))

\* a simulated error with an error_status outside the failure range, and
\* with a mapping json.dumps could not serialize
C2_Witness ==
    \E t \in Threads :
        /\ pc[t] = "returned"
        /\ args[t].simulate_error
        /\ args[t].error_status = 200
        /\ resp[t].status_code = 200
        /\ IsDict(args[t].params)
        /\ ~JsonSerializable(args[t].params)

----------------------------------------------------------------------------
(* C3 *)

\* C3: for every ResponseData returned, on the success path and on the
\* simulated-error path, deserializing raw_text yields a structure equal to
\* the payload (json_data).
C3_RoundTrip ==
    \A t \in Threads :
        pc[t] = "returned" => JsonLoads(resp[t].raw_text) = Payload(t)

----------------------------------------------------------------------------
(* C4 *)

\* C4: a call whose url is the empty string or is not a string fails with
\* ValueError and returns no ResponseData, whatever the other arguments are.
C4_BadUrlValueError ==
    \A t \in Threads :
        (/\ pc[t] # "idle"
         /\ (TypeOf(args[t].url) # "str" \/ args[t].url = PyStr(<<>>)))
        => /\ pc[t] = "raised"
           /\ exc[t] = "ValueError"
           /\ resp[t] = NoResponse

\* an empty url together with simulate_error and a params that is no mapping
C4_Witness ==
    \E t \in Threads :
        /\ pc[t] = "raised"
        /\ exc[t] = "ValueError"
        /\ args[t].url = PyStr(<<>>)
        /\ args[t].simulate_error
        /\ ~AbsentOrMapping(args[t].params)

----------------------------------------------------------------------------
(* C5 *)

\* C5 as stated: a call with a params/body or headers value that is present
\* and is not a mapping always fails with TypeError and returns no
\* ResponseData.
C5_NonMappingTypeError ==
    \A t \in Threads :
        (/\ pc[t] # "idle"
         /\ (~AbsentOrMapping(args[t].params) \/ ~AbsentOrMapping(args[t].headers)))
        => /\ pc[t] = "raised"
           /\ exc[t] = "TypeError"
           /\ resp[t] = NoResponse

\* C5 amended: a call with a url that passes validation (a string with a
\* character that is not white space) and a params/body or headers value that
\* is present and is not a mapping always fails with TypeError and returns no
\* ResponseData; with such a url, values that are absent or mappings pass the
\* validation: the call goes on to its delay.
C5_NonMappingTypeErrorValidUrl ==
    \A t \in Threads :
        /\ (/\ pc[t] # "idle"
            /\ NonBlankStr(args[t].url)
            /\ (~AbsentOrMapping(args[t].params) \/ ~AbsentOrMapping(args[t].headers)))
           => /\ pc[t] = "raised"
              /\ exc[t] = "TypeError"
              /\ resp[t] = NoResponse
        /\ (/\ pc[t] # "idle"
            /\ NonBlankStr(args[t].url)
            /\ AbsentOrMapping(args[t].params)
            /\ AbsentOrMapping(args[t].headers))
           => (pc[t] = "sleeping" \/ slept[t] > 0)

\* a valid url, params absent and a headers value that is no mapping
C5_Witness ==
    \E t \in Threads :
        /\ pc[t] = "raised"
        /\ exc[t] = "TypeError"
        /\ NonBlankStr(args[t].url)
        /\ TypeOf(args[t].params) = "NoneType"
        /\ ~AbsentOrMapping(args[t].headers)

----------------------------------------------------------------------------
(* C6 *)

\* C6: an error raised by a call is raised before the simulated delay: no
\* call that ends in an exception has slept, and every call that has slept
\* ends by returning a ResponseData.
C6_RaisesBeforeSleep ==
    \A t \in Threads :
        /\ pc[t] = "raised" => slept[t] = 0
        /\ (Over(t) /\ slept[t] > 0) => pc[t] = "returned"

----------------------------------------------------------------------------
(* C7 *)

\* C7: once a ResponseData has been returned, raw_text is a serialization of
\* its payload in every later state, whatever the caller does with the
\* mappings it passed in or with the returned value.
C7_NeverDiverge ==
    \A t \in Threads :
        Holds(t) => /\ JsonSerializable(Payload(t))
                    /\ JsonDumps(Payload(t)) = resp[t].raw_text

----------------------------------------------------------------------------
(* C8 *)

\* C8: the payload of a successful call echoes the request: its url is the
\* supplied url, its params (get) or body (post) entry is the supplied
\* mapping, its headers entry is the supplied headers, and each of the two is
\* the empty mapping when the argument was omitted.
C8_PayloadEchoesRequest ==
    \A t \in Threads :
        (pc[t] = "returned" /\ ~args[t].simulate_error)
        => /\ Entry(Payload(t), KeyUrl, args[t].url)
           /\ Entry(Payload(t), KeyMapping(args[t].fn), Supplied(args[t].params))
           /\ Entry(Payload(t), KeyHeaders, Supplied(args[t].headers))

\* a successful post with a non-empty body and the headers omitted
C8_Witness ==
    \E t \in Threads :
        /\ pc[t] = "returned"
        /\ ~args[t].simulate_error
        /\ args[t].fn = "post"
        /\ IsDict(args[t].params) /\ Len(args[t].params[2]) > 0
        /\ TypeOf(args[t].headers) = "NoneType"
        /\ Entry(Payload(t), KeyHeaders, PyDict(<<>>))

----------------------------------------------------------------------------
(* C9 *)

\* what C9 says a call's own arguments decide: whether it raised or returned,
\* the error raised, the status_code on the error path, and the url, mapping
\* and headers echoed on the success path
Outcome(t) ==
    [ended |-> pc[t],
     error |-> exc[t],
     error_status |->
        IF pc[t] = "returned" /\ args[t].simulate_error
        THEN <<resp[t].status_code>> ELSE <<>>,
     echo |->
        IF pc[t] = "returned" /\ ~args[t].simulate_error
        THEN <<DictGet(Payload(t), KeyUrl),
               DictGet(Payload(t), KeyMapping(args[t].fn)),
               DictGet(Payload(t), KeyHeaders)>>
        ELSE <<>>]

\* C9: calls carry no state between them and concurrent callers are
\* independent: any two calls with the same arguments, whatever ran before or
\* beside them, agree on whether they raise or return, on the error, on the
\* error-path status_code and on the echoed url, mapping and headers.
C9_CallsIndependent ==
    \A t \in Threads : \A u \in Threads :
        (Over(t) /\ Over(u) /\ args[t] = args[u]) => Outcome(t) = Outcome(u)

\* two callers passed the same arguments, both calls returned, and the
\* random status codes differ while the outcomes agree
C9_Witness ==
    \E t \in Threads : \E u \in Threads :
        /\ t # u
        /\ pc[t] = "returned" /\ pc[u] = "returned"
        /\ args[t] = args[u]
        /\ ~args[t].simulate_error
        /\ resp[t].status_code # resp[u].status_code

----------------------------------------------------------------------------
(* C10 *)

\* C10: every ResponseData returned, on either path, has response headers
\* that are exactly the one entry Content-Type: application/json; the request
\* headers never appear in them.
C10_FixedResponseHeaders ==
    \A t \in Threads :
        pc[t] = "returned"
        => /\ resp[t].headers =
                PyDict(<< <<PyStr(<<"C", "o", "n", "t", "e", "n", "t", "-", "T", "y", "p", "e">>),
                           PyStr(<<"a", "p", "p", "l", "i", "c", "a", "t", "i", "o", "n", "/", "j", "s", "o", "n">>)>> >>)
           /\ \A i \in 1..Len(Supplied(args[t].headers)[2]) :
                ~HasKey(resp[t].headers, Supplied(args[t].headers)[2][i][1])

\* a simulated error returned to a caller that passed request headers
C10_Witness ==
    \E t \in Threads :
        /\ pc[t] = "returned"
        /\ args[t].simulate_error
        /\ IsDict(args[t].headers) /\ Len(args[t].headers[2]) > 0

----------------------------------------------------------------------------
(* C11 *)

\* the argument a validation error names in its message
Names(m) ==
    CASE m = "URL must be a non-empty string." -> "url"
      [] m = "params must be a dictionary or None." -> "params"
      [] m = "data must be a dictionary or None." -> "data"
      [] m = "headers must be a dictionary or None." -> "headers"
      [] OTHER -> "none"

\* C11: when several arguments of one call are invalid, the error reported
\* follows the validation order url, params/body, headers, in simulate_get
\* and simulate_post alike: an invalid url yields ValueError even if
\* params/body or headers are no mappings, and a params/body that is no
\* mapping is reported in preference to a headers that is no mapping.
C11_ValidationOrder ==
    \A t \in Threads :
        pc[t] # "idle" =>
            /\ ~NonBlankStr(args[t].url)
               => /\ pc[t] = "raised"
                  /\ exc[t] = "ValueError"
                  /\ Names(msg[t]) = "url"
            /\ (NonBlankStr(args[t].url) /\ ~AbsentOrMapping(args[t].params))
               => /\ pc[t] = "raised"
                  /\ exc[t] = "TypeError"
                  /\ Names(msg[t]) = (IF args[t].fn = "get" THEN "params" ELSE "data")
            /\ (/\ NonBlankStr(args[t].url)
                /\ AbsentOrMapping(args[t].params)
                /\ ~AbsentOrMapping(args[t].headers))
               => /\ pc[t] = "raised"
                  /\ exc[t] = "TypeError"
                  /\ Names(msg[t]) = "headers"

\* a post with a valid url whose body and headers are both no mappings: the
\* error names the body
C11_Witness ==
    \E t \in Threads :
        /\ pc[t] = "raised"
        /\ args[t].fn = "post"
        /\ NonBlankStr(args[t].url)
        /\ ~AbsentOrMapping(args[t].params)
        /\ ~AbsentOrMapping(args[t].headers)
        /\ exc[t] = "TypeError"
        /\ Names(msg[t]) = "data"

====
